---- MODULE Spec2Model ----
(***************************************************************************)
(* Magnum::Trade material attributes (src/src/Magnum/Trade/MaterialData.h) *)
(*                                                                         *)
(* MaterialAttributeType / materialAttributeTypeFor<T>() form the type     *)
(* registry, MaterialAttributeData is the fixed-size name + tag + payload  *)
(* record, MaterialData owns an ordered array of such records.             *)
(*                                                                         *)
(* The header declares but does not define the private                     *)
(* MaterialAttributeData constructor, materialAttributeTypeSize() and the  *)
(* MaterialData constructor; it has no value accessor at all.  Those       *)
(* bodies are modelled after the design description and are marked so      *)
(* where they are defined.                                                 *)
(***************************************************************************)
EXTENDS Integers, Sequences, FiniteSets, TLC

VARIABLES rec, recIn, arr, built, material, last

vars == <<rec, recIn, arr, built, material, last>>

(***************************************************************************)
(* Bounds of the model                                                     *)
(***************************************************************************)
\* Names passed as a string view have every length 0..MaxNameLen.
MaxNameLen == 63
\* Name and value contents are drawn from the byte patterns 0..MaxSeed.
MaxSeed == 0
\* Records collected into one array before it is moved into a MaterialData.
MaxRecords == 2
\* The array is filled with values of the first MaxListTypes host types ...
MaxListTypes == 2
\* ... under names of length 0..MaxListNameLen ...
MaxListNameLen == 1
\* ... with contents drawn from the byte patterns 0..MaxListSeed.
MaxListSeed == 0

(***************************************************************************)
(* Type registry                                                           *)
(***************************************************************************)
\* enum class MaterialAttributeType: UnsignedByte, in declaration order.  The
\* first enumerator is Bool = 1, every later one is its predecessor plus one,
\* so an enumerator's value is its position in this list.
MaterialAttributeTypeNames ==
    << "Bool",
       "Float", "UnsignedInt", "Int",
       "Vector2", "Vector2ui", "Vector2i",
       "Vector3", "Vector3ui", "Vector3i",
       "Vector4", "Vector4ui", "Vector4i",
       "Matrix2x2", "Matrix2x3", "Matrix2x4",
       "Matrix3x2", "Matrix3x3", "Matrix3x4",
       "Matrix4x2", "Matrix4x3" >>

\* The numeric value of every enumerator.
MaterialAttributeTypeValue ==
    [ e \in { MaterialAttributeTypeNames[k] : k \in 1..Len(MaterialAttributeTypeNames) } |->
        CHOOSE k \in 1..Len(MaterialAttributeTypeNames) : MaterialAttributeTypeNames[k] = e ]

\* MaterialAttributeType::e
MaterialAttributeType(e) == MaterialAttributeTypeValue[e]

\* Every value an enumerator has; zero is "used for an invalid value".
MaterialAttributeTypeValues ==
    { MaterialAttributeType(MaterialAttributeTypeNames[k]) :
        k \in 1..Len(MaterialAttributeTypeNames) }

\* The host type each enumerator documents (the /**< ... */ comments).
SupportedHostTypes ==
    << "bool",
       "Float", "UnsignedInt", "Int",
       "Vector2", "Vector2ui", "Vector2i",
       "Vector3", "Vector3ui", "Vector3i",
       "Vector4", "Vector4ui", "Vector4i",
       "Matrix2x2", "Matrix2x3", "Matrix2x4",
       "Matrix3x2", "Matrix3x3", "Matrix3x4",
       "Matrix4x2", "Matrix4x3" >>

HostTypes == { SupportedHostTypes[k] : k \in 1..Len(SupportedHostTypes) }

\* The types the _c(type) macro is expanded for, in source order.
MacroSpecializations ==
    << "Float", "UnsignedInt", "Int",
       "Vector2", "Vector2ui", "Vector2i",
       "Vector3", "Vector3ui", "Vector3i",
       "Vector4", "Vector4ui", "Vector4i",
       "Matrix2x2", "Matrix2x3", "Matrix2x4",
       "Matrix3x2", "Matrix3x3", "Matrix3x4",
       "Matrix4x2", "Matrix4x3" >>

\* The types materialAttributeTypeFor<T>() has a definition for; for any other
\* T the primary template is only declared and the program does not build.
SpecializedTypes ==
    { MacroSpecializations[k] : k \in 1..Len(MacroSpecializations) } \cup {"bool"}

\* A registry with a copy-paste slip: the Vector2ui specialization returns the
\* Vector2 enumerator.
materialAttributeTypeForSlip(T) ==
    IF T = "bool" THEN MaterialAttributeType("Bool")
    ELSE IF T = "Vector2ui" THEN MaterialAttributeType("Vector2")
    ELSE MaterialAttributeType(T)

\* A registry whose bool specialization returns a value-initialized tag.
materialAttributeTypeForZero(T) ==
    IF T = "bool" THEN 0 ELSE MaterialAttributeType(T)

\* template<> constexpr MaterialAttributeType materialAttributeTypeFor<T>():
\* _c(type) returns MaterialAttributeType::type, the bool one returns Bool.
materialAttributeTypeFor(T) ==
    IF T = "bool" THEN MaterialAttributeType("Bool") ELSE MaterialAttributeType(T)

\* Number of 32-bit components of a host type, as its name spells it.
Components(T) ==
    CASE T \in {"bool", "Float", "UnsignedInt", "Int"} -> 1
      [] T \in {"Vector2", "Vector2ui", "Vector2i"} -> 2
      [] T \in {"Vector3", "Vector3ui", "Vector3i"} -> 3
      [] T \in {"Vector4", "Vector4ui", "Vector4i"} -> 4
      [] T = "Matrix2x2" -> 2 * 2
      [] T = "Matrix2x3" -> 2 * 3
      [] T = "Matrix2x4" -> 2 * 4
      [] T = "Matrix3x2" -> 3 * 2
      [] T = "Matrix3x3" -> 3 * 3
      [] T = "Matrix3x4" -> 3 * 4
      [] T = "Matrix4x2" -> 4 * 2
      [] T = "Matrix4x3" -> 4 * 3

\* sizeof(T) with the component count taken for the byte count.
sizeofComponents(T) == Components(T)

\* sizeof(T) with 64-bit components.
sizeofDouble(T) == IF T = "bool" THEN 1 ELSE 8 * Components(T)

\* sizeof(T) with three-component vectors padded to four components.
sizeofPadded(T) ==
    IF T = "bool" THEN 1
    ELSE IF T \in {"Vector3", "Vector3ui", "Vector3i"} THEN 16
    ELSE 4 * Components(T)

\* sizeof(T), the typeSize both public constructors pass on: bool is one
\* byte, every other type is made of full 32-bit components ("no 8-, 16- or
\* half-float types", no Double).
sizeofT(T) == IF T = "bool" THEN 1 ELSE 4 * Components(T)


\* std::size_t materialAttributeTypeSize(MaterialAttributeType type): the
\* runtime table from a tag to the byte size of its value.  Only declared in
\* the header; the rows are those of the design description (Bool = 1,
\* Float = 4, Vector4 = 16, Matrix3x4 = 48, the rest alike).  It is not
\* defined for the zero tag.
materialAttributeTypeSize(type) ==
    CASE type = MaterialAttributeType("Bool") -> 1
      [] type \in { MaterialAttributeType("Float"), MaterialAttributeType("UnsignedInt"),
                    MaterialAttributeType("Int") } -> 4
      [] type \in { MaterialAttributeType("Vector2"), MaterialAttributeType("Vector2ui"),
                    MaterialAttributeType("Vector2i") } -> 8
      [] type \in { MaterialAttributeType("Vector3"), MaterialAttributeType("Vector3ui"),
                    MaterialAttributeType("Vector3i") } -> 12
      [] type \in { MaterialAttributeType("Vector4"), MaterialAttributeType("Vector4ui"),
                    MaterialAttributeType("Vector4i") } -> 16
      [] type = MaterialAttributeType("Matrix2x2") -> 16
      [] type = MaterialAttributeType("Matrix2x3") -> 24
      [] type = MaterialAttributeType("Matrix2x4") -> 32
      [] type = MaterialAttributeType("Matrix3x2") -> 24
      [] type = MaterialAttributeType("Matrix3x3") -> 36
      [] type = MaterialAttributeType("Matrix3x4") -> 48
      [] type = MaterialAttributeType("Matrix4x2") -> 32
      [] type = MaterialAttributeType("Matrix4x3") -> 48

(***************************************************************************)
(* Attribute names                                                         *)
(***************************************************************************)
\* enum class MaterialAttribute, in declaration order.
MaterialAttribute ==
    << "AlphaMask",
       "AlphaBlend",
       "DoubleSided",
       "AmbientColor",
       "AmbientTexture",
       "AmbientCoordinateSet",
       "AmbientTextureMatrix",
       "DiffuseColor",
       "DiffuseTexture",
       "DiffuseCoordinateSet",
       "DiffuseTextureMatrix",
       "SpecularColor",
       "SpecularTexture",
       "SpecularCoordinateSet",
       "SpecularTextureMatrix",
       "NormalTexture",
       "NormalCoordinateSet",
       "NormalTextureMatrix",
       "CoordinateSet",
       "TextureMatrix",
       "Shininess" >>

MaterialAttributes == { MaterialAttribute[k] : k \in 1..Len(MaterialAttribute) }

\* The text a MaterialAttribute is stored under: the enumerator's identifier,
\* as a sequence of character codes.  The conversion is not part of the header.
materialAttributeName(a) ==
    CASE a = "AlphaMask" ->
           << 65, 108, 112, 104, 97, 77, 97, 115, 107 >>
      [] a = "AlphaBlend" ->
           << 65, 108, 112, 104, 97, 66, 108, 101, 110, 100 >>
      [] a = "DoubleSided" ->
           << 68, 111, 117, 98, 108, 101, 83, 105, 100, 101, 100 >>
      [] a = "AmbientColor" ->
           << 65, 109, 98, 105, 101, 110, 116, 67, 111, 108, 111, 114 >>
      [] a = "AmbientTexture" ->
           << 65, 109, 98, 105, 101, 110, 116, 84, 101, 120, 116, 117, 114, 101 >>
      [] a = "AmbientCoordinateSet" ->
           << 65, 109, 98, 105, 101, 110, 116, 67, 111, 111, 114, 100, 105, 110, 97, 116, 101, 83, 101, 116 >>
      [] a = "AmbientTextureMatrix" ->
           << 65, 109, 98, 105, 101, 110, 116, 84, 101, 120, 116, 117, 114, 101, 77, 97, 116, 114, 105, 120 >>
      [] a = "DiffuseColor" ->
           << 68, 105, 102, 102, 117, 115, 101, 67, 111, 108, 111, 114 >>
      [] a = "DiffuseTexture" ->
           << 68, 105, 102, 102, 117, 115, 101, 84, 101, 120, 116, 117, 114, 101 >>
      [] a = "DiffuseCoordinateSet" ->
           << 68, 105, 102, 102, 117, 115, 101, 67, 111, 111, 114, 100, 105, 110, 97, 116, 101, 83, 101, 116 >>
      [] a = "DiffuseTextureMatrix" ->
           << 68, 105, 102, 102, 117, 115, 101, 84, 101, 120, 116, 117, 114, 101, 77, 97, 116, 114, 105, 120 >>
      [] a = "SpecularColor" ->
           << 83, 112, 101, 99, 117, 108, 97, 114, 67, 111, 108, 111, 114 >>
      [] a = "SpecularTexture" ->
           << 83, 112, 101, 99, 117, 108, 97, 114, 84, 101, 120, 116, 117, 114, 101 >>
      [] a = "SpecularCoordinateSet" ->
           << 83, 112, 101, 99, 117, 108, 97, 114, 67, 111, 111, 114, 100, 105, 110, 97, 116, 101, 83, 101, 116 >>
      [] a = "SpecularTextureMatrix" ->
           << 83, 112, 101, 99, 117, 108, 97, 114, 84, 101, 120, 116, 117, 114, 101, 77, 97, 116, 114, 105, 120 >>
      [] a = "NormalTexture" ->
           << 78, 111, 114, 109, 97, 108, 84, 101, 120, 116, 117, 114, 101 >>
      [] a = "NormalCoordinateSet" ->
           << 78, 111, 114, 109, 97, 108, 67, 111, 111, 114, 100, 105, 110, 97, 116, 101, 83, 101, 116 >>
      [] a = "NormalTextureMatrix" ->
           << 78, 111, 114, 109, 97, 108, 84, 101, 120, 116, 117, 114, 101, 77, 97, 116, 114, 105, 120 >>
      [] a = "CoordinateSet" ->
           << 67, 111, 111, 114, 100, 105, 110, 97, 116, 101, 83, 101, 116 >>
      [] a = "TextureMatrix" ->
           << 84, 101, 120, 116, 117, 114, 101, 77, 97, 116, 114, 105, 120 >>
      [] a = "Shininess" ->
           << 83, 104, 105, 110, 105, 110, 101, 115, 115 >>

(***************************************************************************)
(* MaterialAttributeData: the record                                       *)
(***************************************************************************)
\* sizeof(MaterialAttributeData): "MaterialAttributeData is 64 bytes".
RecordSize == 64
\* sizeof(_type): MaterialAttributeType is an UnsignedByte enum, and
\* CORRADE_ALIGNAS(8) aligns the member (and so the record) without padding
\* what follows it; _data starts right after the tag.
DataOffset == 1
\* char _data[63]
DataSize == 63

\* The budget if the tag were padded to its 8-byte alignment.
UsablePayloadBytesPadded == RecordSize - 8

\* The bytes of the record that name and value share: all of _data.
UsablePayloadBytes == DataSize

\* The byte of record r at offset o from the start of the record, o >= DataOffset.
DataAt(r, o) == r._data[o - DataOffset + 1]

\* An accessor that returns a value-initialized tag instead of the member.
typeZero(r) == 0

\* constexpr MaterialAttributeType type() const { return _type; }
type(r) == r._type

\* The private constructor MaterialAttributeData(name, type, typeSize, value),
\* declared in the header without a body.  After the design description: the
\* name and the value have to fit the shared bytes together, otherwise the
\* construction fails with OversizedAttribute and yields nothing; the tag goes
\* to _type, the name to the start of _data, the typeSize bytes of the value
\* to the end of the record (so that the tag alone locates them), and the
\* bytes between the two are zero-filled.  `written` is the set of offsets,
\* from the start of the record, that the constructor stores to.
MaterialAttributeDataImpl(name, tag, typeSize, value) ==
    IF Len(name) + typeSize > UsablePayloadBytes
    THEN [ ok |-> FALSE, error |-> "OversizedAttribute", record |-> << >>,
           written |-> {}, valueOffset |-> 0 ]
    ELSE LET nameAt  == DataOffset
             valueAt == RecordSize - typeSize
             byte(o) ==
                 IF o >= valueAt THEN value[o - valueAt + 1]
                 ELSE IF o < nameAt + Len(name) THEN name[o - nameAt + 1]
                 ELSE 0
         IN  [ ok |-> TRUE, error |-> "",
               record |-> << [ _type |-> tag,
                               _data |-> [ j \in 1..DataSize |-> byte(j + DataOffset - 1) ] ] >>,
               written |-> {0} \cup (nameAt .. (nameAt + Len(name) - 1))
                               \cup ((nameAt + Len(name)) .. (valueAt - 1))
                               \cup (valueAt .. (valueAt + typeSize - 1)),
               valueOffset |-> valueAt ]

\* template<class T> explicit MaterialAttributeData(Containers::StringView name, const T& value)
MaterialAttributeDataFromView(name, T, value) ==
    MaterialAttributeDataImpl(name, materialAttributeTypeFor(T), sizeofT(T), value)

\* template<class T> explicit MaterialAttributeData(MaterialAttribute name, const T& value)
MaterialAttributeDataFromAttribute(a, T, value) ==
    MaterialAttributeDataImpl(materialAttributeName(a), materialAttributeTypeFor(T),
                              sizeofT(T), value)

\* The n bytes of record r that start at offset o.
StoredBytes(r, o, n) == [ i \in 1..n |-> DataAt(r, o + i - 1) ]

\* Reading the value of record r as host type T.  The header has no such
\* accessor; after the design description: a tag that is no enumerator, or
\* one that differs from the tag of T, ends the program, otherwise the bytes
\* the size table gives for the stored tag are read from the end of the record.
valueAs(r, T) ==
    IF type(r) \notin MaterialAttributeTypeValues
    THEN [ outcome |-> "abort", error |-> "InvalidTag", value |-> << >> ]
    ELSE IF materialAttributeTypeFor(T) # type(r)
    THEN [ outcome |-> "abort", error |-> "TypeMismatch", value |-> << >> ]
    ELSE LET size == materialAttributeTypeSize(type(r))
         IN  [ outcome |-> "value", error |-> "",
               value |-> StoredBytes(r, RecordSize - size, size) ]

(***************************************************************************)
(* MaterialData: the attribute list                                        *)
(***************************************************************************)
\* A constructor that fills _data back to front.
MaterialDataReversed(data) ==
    [ _data |-> [ i \in 1..Len(data) |-> data[Len(data) + 1 - i] ] ]

\* explicit MaterialData(Containers::Array<MaterialAttributeData>&& data),
\* declared in the header without a body: the array is moved into _data.
MaterialData(data) == [ _data |-> data ]

\* Number of records of a MaterialData (no accessor in the header).
attributeCount(m) == Len(m._data)

\* The record at the zero-based index i (no accessor in the header).
attributeAt(m, i) == m._data[i + 1]

(***************************************************************************)
(* Inputs                                                                  *)
(***************************************************************************)
\* A name of n non-zero characters, 'a'..'z', that differ with the pattern.
NameOf(n, seed) == [ i \in 1..n |-> 97 + ((i + 3 * seed) % 26) ]

\* A value of host type T: sizeof(T) bytes that differ from offset to offset
\* and from pattern to pattern.
ValueOf(T, seed) == [ i \in 1..sizeofT(T) |-> (7 * i + 131 * seed) % 256 ]

\* The host types the attribute list is filled with.
ListTypes == { SupportedHostTypes[k] : k \in 1..MaxListTypes }

(***************************************************************************)
(* State                                                                   *)
(*   rec       the record the last constructor call produced, << >> if     *)
(*             none                                                        *)
(*   recIn     the (host type, name, value) rec was constructed from       *)
(*   arr       the caller's array of records, before it is moved           *)
(*   built     the (host type, name, value) of every record put into arr,  *)
(*             in the order of construction                                *)
(*   material  the MaterialData constructed from arr, << >> before that    *)
(*   last      what the last operation was given and what it returned      *)
(***************************************************************************)
NoResult ==
    [ op |-> "none", T |-> "", nameSize |-> 0, tag |-> 0, typeSize |-> 0,
      ok |-> FALSE, error |-> "", written |-> {}, valueOffset |-> 0,
      outcome |-> "", value |-> << >>, index |-> 0, count |-> 0, record |-> << >> ]

Init ==
    /\ rec = << >>
    /\ recIn = << >>
    /\ arr = << >>
    /\ built = << >>
    /\ material = << >>
    /\ last = NoResult

\* What a constructor call leaves in `last`.
Constructed(T, name, res) ==
    [ NoResult EXCEPT !.op = "construct", !.T = T, !.nameSize = Len(name),
                      !.tag = materialAttributeTypeFor(T), !.typeSize = sizeofT(T),
                      !.ok = res.ok, !.error = res.error, !.written = res.written,
                      !.valueOffset = res.valueOffset ]

(***************************************************************************)
(* One record                                                              *)
(***************************************************************************)
ConstructFromView ==
    /\ rec = << >>
    /\ \E T \in HostTypes, n \in 0..MaxNameLen, seed \in 0..MaxSeed :
        LET name  == NameOf(n, seed)
            value == ValueOf(T, seed)
            res   == MaterialAttributeDataFromView(name, T, value)
        IN  /\ rec' = res.record
            /\ recIn' = IF res.ok THEN << [ T |-> T, name |-> name, value |-> value ] >>
                        ELSE << >>
            /\ last' = Constructed(T, name, res)
            /\ UNCHANGED <<arr, built, material>>

ConstructFromAttribute ==
    /\ rec = << >>
    /\ \E T \in HostTypes, a \in MaterialAttributes, seed \in 0..MaxSeed :
        LET name  == materialAttributeName(a)
            value == ValueOf(T, seed)
            res   == MaterialAttributeDataFromAttribute(a, T, value)
        IN  /\ rec' = res.record
            /\ recIn' = IF res.ok THEN << [ T |-> T, name |-> name, value |-> value ] >>
                        ELSE << >>
            /\ last' = Constructed(T, name, res)
            /\ UNCHANGED <<arr, built, material>>

ReadType ==
    /\ rec # << >>
    /\ last' = [ NoResult EXCEPT !.op = "type", !.tag = type(rec[1]) ]
    /\ UNCHANGED <<rec, recIn, arr, built, material>>

ReadValue ==
    /\ rec # << >>
    /\ \E T \in HostTypes :
        LET res == valueAs(rec[1], T)
        IN  last' = [ NoResult EXCEPT !.op = "value", !.T = T, !.outcome = res.outcome,
                                      !.error = res.error, !.value = res.value ]
    /\ UNCHANGED <<rec, recIn, arr, built, material>>

Next ==
    \/ ConstructFromView
    \/ ConstructFromAttribute
    \/ ReadType
    \/ ReadValue

Spec == Init /\ [][Next]_vars

(***************************************************************************)
(* An array of records and the MaterialData made of it                     *)
(***************************************************************************)
\* The records that exist: the caller's until the array is moved, the
\* MaterialData's afterwards.
Records == IF material = << >> THEN arr ELSE material[1]._data

EmplaceRecord ==
    /\ material = << >>
    /\ Len(arr) < MaxRecords
    /\ \E T \in ListTypes, n \in 0..MaxListNameLen, seed \in 0..MaxListSeed :
        LET name  == NameOf(n, seed)
            value == ValueOf(T, seed)
            res   == MaterialAttributeDataFromView(name, T, value)
        IN  /\ res.ok
            /\ arr' = arr \o res.record
            /\ built' = Append(built, [ T |-> T, name |-> name, value |-> value ])
            /\ last' = Constructed(T, name, res)
    /\ UNCHANGED <<rec, recIn, material>>

ConstructMaterial ==
    /\ material = << >>
    /\ material' = << MaterialData(arr) >>
    /\ arr' = << >>
    /\ last' = [ NoResult EXCEPT !.op = "MaterialData", !.count = Len(arr) ]
    /\ UNCHANGED <<rec, recIn, built>>

ReadCount ==
    /\ material # << >>
    /\ last' = [ NoResult EXCEPT !.op = "attributeCount",
                                 !.count = attributeCount(material[1]) ]
    /\ UNCHANGED <<rec, recIn, arr, built, material>>

ReadAt ==
    /\ material # << >>
    /\ \E i \in 0..(attributeCount(material[1]) - 1) :
        last' = [ NoResult EXCEPT !.op = "attributeAt", !.index = i,
                                  !.record = << attributeAt(material[1], i) >> ]
    /\ UNCHANGED <<rec, recIn, arr, built, material>>

ReadElementType ==
    /\ \E i \in 0..(Len(Records) - 1) :
        last' = [ NoResult EXCEPT !.op = "type", !.index = i,
                                  !.tag = type(Records[i + 1]) ]
    /\ UNCHANGED <<rec, recIn, arr, built, material>>

ReadElementValue ==
    /\ \E i \in 0..(Len(Records) - 1), T \in ListTypes :
        LET res == valueAs(Records[i + 1], T)
        IN  last' = [ NoResult EXCEPT !.op = "value", !.index = i, !.T = T,
                                      !.outcome = res.outcome, !.error = res.error,
                                      !.value = res.value ]
    /\ UNCHANGED <<rec, recIn, arr, built, material>>

NextMaterial ==
    \/ EmplaceRecord
    \/ ConstructMaterial
    \/ ReadCount
    \/ ReadAt
    \/ ReadElementType
    \/ ReadElementValue

SpecMaterial == Init /\ [][NextMaterial]_vars

(***************************************************************************)
(* Properties                                                              *)
(***************************************************************************)
\* Natural alignment of the host type of a tag: 1 for Bool, 4 for the rest.
NaturalAlignment(tag) == IF tag = MaterialAttributeType("Bool") THEN 1 ELSE 4

\* The host types whose tag is k.
HostTypesOf(k) == { T \in HostTypes : materialAttributeTypeFor(T) = k }

\* Record r holds the tag, the name and the value of what it was built from.
Holds(r, in) ==
    /\ type(r) = materialAttributeTypeFor(in.T)
    /\ StoredBytes(r, DataOffset, Len(in.name)) = in.name
    /\ StoredBytes(r, RecordSize - Len(in.value), Len(in.value)) = in.value

C2_RoundTrip ==
    (last.op = "value" /\ rec # << >> /\ last.T = recIn[1].T) =>
        /\ last.outcome = "value"
        /\ last.value = recIn[1].value
        /\ Len(last.value) = sizeofT(last.T)

\* A Matrix3x4 stored under a 15-character name was read back unchanged.
C2_Witness ==
    /\ last.op = "value"
    /\ last.outcome = "value"
    /\ rec # << >>
    /\ last.T = "Matrix3x4"
    /\ Len(recIn[1].name) = 15
    /\ Len(last.value) = 48
    /\ last.value = recIn[1].value

\* C3, size agreement: every non-zero tag is the tag of exactly one host type
\* and the size table gives that type's sizeof; the typeSize a public
\* constructor passes is what the table gives for the tag it passes.
C3_SizeAgreement ==
    /\ \A k \in MaterialAttributeTypeValues :
           /\ Cardinality(HostTypesOf(k)) = 1
           /\ \A T \in HostTypesOf(k) : materialAttributeTypeSize(k) = sizeofT(T)
    /\ last.op = "construct" => last.typeSize = materialAttributeTypeSize(last.tag)

\* A constructor was called with a Vector3i: tag 10 and 12 bytes.
C3_Witness ==
    /\ last.op = "construct"
    /\ last.T = "Vector3i"
    /\ last.tag = 10
    /\ last.typeSize = 12
    /\ materialAttributeTypeSize(last.tag) = 12

\* C4, tag totality: every supported host type has a specialization of
\* materialAttributeTypeFor, which returns an enumerator value in 1..21 and
\* never 0; the type() of a constructed record is never 0.
C4_TagTotality ==
    /\ HostTypes \subseteq SpecializedTypes
    /\ \A T \in HostTypes :
           /\ materialAttributeTypeFor(T) \in MaterialAttributeTypeValues
           /\ materialAttributeTypeFor(T) \in 1..21
    /\ last.op = "construct" => last.tag \in 1..21
    /\ rec # << >> => type(rec[1]) \in 1..21

\* A record was constructed from a bool and its type() was read as 1.
C4_Witness ==
    /\ rec # << >>
    /\ recIn[1].T = "bool"
    /\ last.op = "type"
    /\ last.tag = 1

\* C5: reading a record as host type T returns a value only when the tag of
\* T is the stored tag, and then T is the host type the record was built
\* from; for every other T the read ends the program and returns no bytes.
C5_MismatchIsFatal ==
    (last.op = "value" /\ rec # << >>) =>
        /\ last.outcome = "value" <=> materialAttributeTypeFor(last.T) = type(rec[1])
        /\ last.outcome = "value" => last.T = recIn[1].T
        /\ last.T # recIn[1].T =>
               /\ last.outcome = "abort"
               /\ last.error = "TypeMismatch"
               /\ last.value = << >>

\* A Vector2 record was read as a Vector2ui, two types of the same size.
C5_Witness ==
    /\ last.op = "value"
    /\ rec # << >>
    /\ recIn[1].T = "Vector2"
    /\ last.T = "Vector2ui"
    /\ last.outcome = "abort"

C10_TagInjectivity ==
    /\ \A T1, T2 \in HostTypes :
           materialAttributeTypeFor(T1) = materialAttributeTypeFor(T2) => T1 = T2
    /\ \A k \in MaterialAttributeTypeValues : Cardinality(HostTypesOf(k)) = 1
    /\ rec # << >> => HostTypesOf(type(rec[1])) = { recIn[1].T }

\* A record holds a Vector2ui, whose tag 6 lies between Vector2 and Vector2i.
C10_Witness ==
    /\ rec # << >>
    /\ recIn[1].T = "Vector2ui"
    /\ type(rec[1]) = 6

\* C6, order preservation: a MaterialData constructed from n records reports
\* the count n and at every index the record constructed at that position,
\* with its name, tag and value, also when names repeat.
C6_OrderPreservation ==
    /\ material # << >> =>
           /\ attributeCount(material[1]) = Len(built)
           /\ \A i \in 0..(Len(built) - 1) :
                  Holds(attributeAt(material[1], i), built[i + 1])
    /\ last.op = "MaterialData" => last.count = Len(built)
    /\ last.op = "attributeCount" => last.count = Len(built)
    /\ last.op = "attributeAt" => Holds(last.record[1], built[last.index + 1])

\* Two records of the same name and different types: index 1 gave the second.
C6_Witness ==
    /\ material # << >>
    /\ Len(built) = 2
    /\ built[1].name = built[2].name
    /\ built[1].T # built[2].T
    /\ last.op = "attributeAt"
    /\ last.index = 1
    /\ type(last.record[1]) = materialAttributeTypeFor(built[2].T)

\* C7, immutability: every record that exists, in the caller's array or in
\* the MaterialData it was moved into, has as type() the tag of the host type
\* it was constructed from and holds the name and value bytes written at
\* construction, after any reads, the move and indexed access.
C7_Immutability ==
    /\ Len(Records) = Len(built)
    /\ \A i \in 1..Len(Records) : Holds(Records[i], built[i])
    /\ (last.op = "type" /\ Len(Records) > last.index) =>
           last.tag = materialAttributeTypeFor(built[last.index + 1].T)

\* After the move, the type() of the second record was read as its tag.
C7_Witness ==
    /\ material # << >>
    /\ arr = << >>
    /\ Len(built) = 2
    /\ last.op = "type"
    /\ last.index = 1
    /\ last.tag = materialAttributeTypeFor(built[2].T)

====
